---- MODULE Spec2Model ----
(***************************************************************************)
(* The scheduling page of app.py: build the Cafe_Staffing integer program, *)
(* solve it once, report the result, shade the three infeasible regions,   *)
(* overlay the optimal point and the objective line, hand the figure off.  *)
(*                                                                         *)
(* Real numbers are fixed-point: a coordinate or a variable value v is the *)
(* integer v * Unit.  A numpy.linspace sample is kept exact as a numerator *)
(* over the common denominator n - 1.                                      *)
(***************************************************************************)
EXTENDS Integers, Sequences, FiniteSets

VARIABLES pc, given, solver, view, prob, result,
          optimal_x1, optimal_x2, optimal_obj_val,
          notice, shaded, marker, isoLine, handed, trace, probe

vars == <<pc, given, solver, view, prob, result,
          optimal_x1, optimal_x2, optimal_obj_val,
          notice, shaded, marker, isoLine, handed, trace, probe>>

----------------------------------------------------------------------------
(* Bounds of the model *)

\* resolution of the plane: one unit of x1 or x2 is Unit grid steps
Unit == 34
\* the solver searches the integer points of [lowBound, MaxVal]^2
MaxVal == 10

----------------------------------------------------------------------------
(* Literals of the script *)

None == -1

\* np.linspace(x_min, x_max, 500) and np.linspace(y_min, y_max, 500)
NGrid == 500
\* np.linspace(x_min, x_max, 100): x_fill and obj_line_x
NFill == 100

\* x_min, x_max = 0, 6 ; y_min, y_max = 0, 6
Viewport == [x_min |-> 0, x_max |-> 6, y_min |-> 0, y_max |-> 6]

Con(a, b, op, rhs) == [a |-> a, b |-> b, op |-> op, rhs |-> rhs]

\* variant: the evening constraint written as x2 >= 1
Cafe_Staffing_Evening1 ==
    [sense |-> "min", lowBound |-> 0, obj |-> <<1, 1>>,
     cons |-> << Con(1, 0, ">=", 2), Con(1, 1, ">=", 3), Con(0, 1, ">=", 1) >>]

\* prob = LpProblem("Cafe_Staffing", LpMinimize); x1, x2 integer, lowBound 0;
\* objective x1 + x2; the three coverage constraints
Cafe_Staffing ==
    [sense |-> "min", lowBound |-> 0, obj |-> <<1, 1>>,
     cons |-> << Con(1, 0, ">=", 2), Con(1, 1, ">=", 3), Con(0, 1, ">=", 2) >>]

----------------------------------------------------------------------------
(* The solver adapter: an exact integer-programming solver (section 4.2)   *)

Box(p) == (p.lowBound .. MaxVal) \X (p.lowBound .. MaxVal)

Sat(con, pt) ==
    LET lhs == con.a * pt[1] + con.b * pt[2]
    IN  IF con.op = ">=" THEN lhs >= con.rhs ELSE lhs <= con.rhs

Feasible(p) == { pt \in Box(p) : \A i \in DOMAIN p.cons : Sat(p.cons[i], pt) }

ObjAt(p, pt) == p.obj[1] * pt[1] + p.obj[2] * pt[2]

Better(p, u, v) == IF p.sense = "min" THEN u < v ELSE u > v

\* a direction along which every constraint stays satisfied and the
\* objective keeps improving
Improving(p) ==
    { d \in {<<1, 0>>, <<0, 1>>, <<1, 1>>} :
        /\ \A i \in DOMAIN p.cons :
              LET c == p.cons[i]
                  s == c.a * d[1] + c.b * d[2]
              IN  IF c.op = ">=" THEN s >= 0 ELSE s <= 0
        /\ Better(p, ObjAt(p, d), 0) }

Optima(p) ==
    { pt \in Feasible(p) :
        \A other \in Feasible(p) : ~ Better(p, ObjAt(p, other), ObjAt(p, pt)) }

\* the results solve() may deliver: LpStatus and the varValue of x1 and x2
SolveResults(p, mode) ==
    IF mode = "gaveup"
      THEN { [status |-> "Not Solved", x1 |-> None, x2 |-> None] }
    ELSE IF Feasible(p) = {}
      THEN { [status |-> "Infeasible", x1 |-> None, x2 |-> None] }
    ELSE IF Improving(p) # {}
      THEN { [status |-> "Unbounded", x1 |-> None, x2 |-> None] }
    ELSE { [status |-> "Optimal", x1 |-> pt[1] * Unit, x2 |-> pt[2] * Unit] :
              pt \in Optima(p) }

----------------------------------------------------------------------------
(* Helpers of the script *)

\* int(v) of a non-negative value: truncation
ToInt(v) == v \div Unit

\* variant: the objective holds x1 only
Value_first(p, v1, v2) == p.obj[1] * v1

\* value(prob.objective) at the variable values
Value(p, v1, v2) == p.obj[1] * v1 + p.obj[2] * v2

\* numerator, over n - 1, of sample i (0-based) of np.linspace(lo, hi, n)
LinNum(lo, hi, n, i) == lo * Unit * (n - 1) + i * (hi - lo) * Unit

\* fill_between / fill_betweenx fill from sample i to sample i + 1 when the
\* where-mask holds at both
Runs(where) ==
    { i \in DOMAIN where : i + 1 \in DOMAIN where /\ where[i] /\ where[i + 1] }

Between(v, a, b) == IF a <= b THEN a <= v /\ v <= b ELSE b <= v /\ v <= a

\* variant: the mask written as x >= 2
WhereC1_feasible(i) == LinNum(view.x_min, view.x_max, NGrid, i) >= 2 * Unit * (NGrid - 1)

\* where=(x >= 0) of the C1 fill
WhereC1(i) == LinNum(view.x_min, view.x_max, NGrid, i) >= 0

\* where=(y_fill_c2 >= y_min) & (x_fill >= x_min), y_fill_c2 = 3 - x_fill
WhereC2(i) ==
    LET xn == LinNum(view.x_min, view.x_max, NFill, i)
    IN  /\ 3 * Unit * (NFill - 1) - xn >= view.y_min * Unit * (NFill - 1)
        /\ xn >= view.x_min * Unit * (NFill - 1)

\* where=(y >= 0) of the C3 fill
WhereC3(i) == LinNum(view.y_min, view.y_max, NGrid, i) >= 0

\* variant: the band drawn to x = 3
InC1_wide(segs, p, q) ==
    /\ Between(p, 0, 3 * Unit)
    /\ \E i \in segs :
          /\ LinNum(view.y_min, view.y_max, NGrid, i) <= q * (NGrid - 1)
          /\ q * (NGrid - 1) <= LinNum(view.y_min, view.y_max, NGrid, i + 1)

\* fill_betweenx(y, 0, 2, where): the band 0 <= x <= 2 along the y samples
InC1(segs, p, q) ==
    /\ Between(p, 0, 2 * Unit)
    /\ \E i \in segs :
          /\ LinNum(view.y_min, view.y_max, NGrid, i) <= q * (NGrid - 1)
          /\ q * (NGrid - 1) <= LinNum(view.y_min, view.y_max, NGrid, i + 1)

\* fill_between(x_fill, y_min, 3 - x_fill, where): between y_min and the line
InC2(segs, p, q) ==
    /\ \E i \in segs :
          /\ LinNum(view.x_min, view.x_max, NFill, i) <= p * (NFill - 1)
          /\ p * (NFill - 1) <= LinNum(view.x_min, view.x_max, NFill, i + 1)
    /\ Between(q, view.y_min * Unit, 3 * Unit - p)

\* fill_between(x, 0, 2, where): the band 0 <= y <= 2 along the x samples
InC3(segs, p, q) ==
    /\ Between(q, 0, 2 * Unit)
    /\ \E i \in segs :
          /\ LinNum(view.x_min, view.x_max, NGrid, i) <= p * (NGrid - 1)
          /\ p * (NGrid - 1) <= LinNum(view.x_min, view.x_max, NGrid, i + 1)

InFill(f, p, q) ==
    CASE f.name = "C1" -> InC1(f.segs, p, q)
      [] f.name = "C2" -> InC2(f.segs, p, q)
      [] OTHER         -> InC3(f.segs, p, q)

\* obj_line_x = np.linspace(x_min, x_max, 100); obj_line_y = Z - obj_line_x
\* (numerators over NFill - 1)
ObjLine(z) ==
    [ k \in 1 .. NFill |->
        LET xn == LinNum(view.x_min, view.x_max, NFill, k - 1)
        IN  [x |-> xn, y |-> z * (NFill - 1) - xn] ]

----------------------------------------------------------------------------
(* The run, statement group by statement group *)

\* lines 91-103
BuildModel ==
    /\ pc = "build"
    /\ prob' = given
    /\ trace' = Append(trace, "build")
    /\ pc' = "solve"
    /\ UNCHANGED <<given, solver, view, result, optimal_x1, optimal_x2,
                   optimal_obj_val, notice, shaded, marker, isoLine, handed,
                   probe>>

\* line 106
InvokeSolver ==
    /\ pc = "solve"
    /\ \E r \in SolveResults(prob, solver) : result' = r
    /\ trace' = Append(trace, "solve")
    /\ pc' = "report"
    /\ UNCHANGED <<given, solver, view, prob, optimal_x1, optimal_x2,
                   optimal_obj_val, notice, shaded, marker, isoLine, handed,
                   probe>>

\* variant: the three names start at 0 instead of None
ReportResult_default0 ==
    /\ pc = "report"
    /\ IF result.status = "Optimal"
         THEN /\ notice' = "success"
              /\ optimal_x1' = result.x1
              /\ optimal_x2' = result.x2
              /\ optimal_obj_val' = Value(prob, result.x1, result.x2)
         ELSE /\ notice' = "warning"
              /\ optimal_x1' = 0
              /\ optimal_x2' = 0
              /\ optimal_obj_val' = 0
    /\ trace' = Append(trace, "report")
    /\ pc' = "shadeC1"
    /\ UNCHANGED <<given, solver, view, prob, result, shaded, marker,
                   isoLine, handed, probe>>

\* variant: a result that is not Optimal sends the run back to the solver
ReportResult_retry ==
    /\ pc = "report"
    /\ IF result.status = "Optimal"
         THEN /\ notice' = "success"
              /\ optimal_x1' = result.x1
              /\ optimal_x2' = result.x2
              /\ optimal_obj_val' = Value(prob, result.x1, result.x2)
              /\ pc' = "shadeC1"
         ELSE /\ notice' = "warning"
              /\ optimal_x1' = None
              /\ optimal_x2' = None
              /\ optimal_obj_val' = None
              /\ pc' = "solve"
    /\ trace' = Append(trace, "report")
    /\ UNCHANGED <<given, solver, view, prob, result, shaded, marker,
                   isoLine, handed, probe>>

\* variant: line 116 is missing
ReportResult_noObj ==
    /\ pc = "report"
    /\ IF result.status = "Optimal"
         THEN /\ notice' = "success"
              /\ optimal_x1' = result.x1
              /\ optimal_x2' = result.x2
              /\ optimal_obj_val' = None
         ELSE /\ notice' = "warning"
              /\ optimal_x1' = None
              /\ optimal_x2' = None
              /\ optimal_obj_val' = None
    /\ trace' = Append(trace, "report")
    /\ pc' = "shadeC1"
    /\ UNCHANGED <<given, solver, view, prob, result, shaded, marker,
                   isoLine, handed, probe>>

\* lines 108-121
ReportResult ==
    /\ pc = "report"
    /\ IF result.status = "Optimal"
         THEN /\ notice' = "success"
              /\ optimal_x1' = result.x1
              /\ optimal_x2' = result.x2
              /\ optimal_obj_val' = Value(prob, result.x1, result.x2)
         ELSE /\ notice' = "warning"
              /\ optimal_x1' = None
              /\ optimal_x2' = None
              /\ optimal_obj_val' = None
    /\ trace' = Append(trace, "report")
    /\ pc' = "shadeC1"
    /\ UNCHANGED <<given, solver, view, prob, result, shaded, marker,
                   isoLine, handed, probe>>

\* lines 136-146
ShadeC1 ==
    /\ pc = "shadeC1"
    /\ shaded' = Append(shaded, [name |-> "C1", segs |-> Runs([i \in 0 .. (NGrid - 1) |-> WhereC1(i)])])
    /\ trace' = Append(trace, "shadeC1")
    /\ pc' = "shadeC2"
    /\ UNCHANGED <<given, solver, view, prob, result, optimal_x1, optimal_x2,
                   optimal_obj_val, notice, marker, isoLine, handed, probe>>

\* lines 148-156
ShadeC2 ==
    /\ pc = "shadeC2"
    /\ shaded' = Append(shaded, [name |-> "C2", segs |-> Runs([i \in 0 .. (NFill - 1) |-> WhereC2(i)])])
    /\ trace' = Append(trace, "shadeC2")
    /\ pc' = "shadeC3"
    /\ UNCHANGED <<given, solver, view, prob, result, optimal_x1, optimal_x2,
                   optimal_obj_val, notice, marker, isoLine, handed, probe>>

\* lines 159-161
ShadeC3 ==
    /\ pc = "shadeC3"
    /\ shaded' = Append(shaded, [name |-> "C3", segs |-> Runs([i \in 0 .. (NGrid - 1) |-> WhereC3(i)])])
    /\ trace' = Append(trace, "shadeC3")
    /\ pc' = "overlay"
    /\ UNCHANGED <<given, solver, view, prob, result, optimal_x1, optimal_x2,
                   optimal_obj_val, notice, marker, isoLine, handed, probe>>

\* variant: the overlay is drawn without the guard of line 178
Overlay_unguarded ==
    /\ pc = "overlay"
    /\ marker' = <<ToInt(optimal_x1), ToInt(optimal_x2)>>
    /\ isoLine' = ObjLine(optimal_obj_val)
    /\ pc' = "handoff"
    /\ trace' = Append(trace, "overlay")
    /\ UNCHANGED <<given, solver, view, prob, result, optimal_x1, optimal_x2,
                   optimal_obj_val, notice, shaded, handed, probe>>

\* lines 178-191; None - ndarray raises TypeError after the marker is drawn
Overlay ==
    /\ pc = "overlay"
    /\ IF optimal_x1 # None /\ optimal_x2 # None
         THEN /\ marker' = <<ToInt(optimal_x1), ToInt(optimal_x2)>>
              /\ IF optimal_obj_val # None
                   THEN /\ isoLine' = ObjLine(optimal_obj_val)
                        /\ pc' = "handoff"
                   ELSE /\ isoLine' = isoLine
                        /\ pc' = "crashed"
         ELSE /\ UNCHANGED <<marker, isoLine>>
              /\ pc' = "handoff"
    /\ trace' = Append(trace, "overlay")
    /\ UNCHANGED <<given, solver, view, prob, result, optimal_x1, optimal_x2,
                   optimal_obj_val, notice, shaded, handed, probe>>

\* lines 194-196
HandOff ==
    /\ pc = "handoff"
    /\ handed' = TRUE
    /\ trace' = Append(trace, "handoff")
    /\ pc' = "done"
    /\ UNCHANGED <<given, solver, view, prob, result, optimal_x1, optimal_x2,
                   optimal_obj_val, notice, shaded, marker, isoLine, probe>>

Next ==
    \/ BuildModel
    \/ InvokeSolver
    \/ ReportResult
    \/ ShadeC1
    \/ ShadeC2
    \/ ShadeC3
    \/ Overlay
    \/ HandOff

----------------------------------------------------------------------------
(* Specifications *)

\* module-scope names before line 91
Start ==
    /\ pc = "build"
    /\ prob = [sense |-> "min", lowBound |-> 0, obj |-> <<0, 0>>, cons |-> <<>>]
    /\ result = [status |-> "Not Solved", x1 |-> None, x2 |-> None]
    /\ optimal_x1 = None
    /\ optimal_x2 = None
    /\ optimal_obj_val = None
    /\ notice = "none"
    /\ shaded = <<>>
    /\ marker = <<>>
    /\ isoLine = <<>>
    /\ handed = FALSE
    /\ trace = <<>>

\* the points of the plane at which the shading is inspected
FineCoords == 0 .. (Viewport.x_max * Unit)
CoarseCoords ==
    { c \in FineCoords : c % (Unit \div 2) = 0 }
        \cup {1, 2 * Unit - 1, 2 * Unit + 1}

\* the page as written: the cafe instance, a working solver, the 6 x 6 view
Init ==
    /\ Start
    /\ given = Cafe_Staffing
    /\ solver = "exact"
    /\ view = Viewport
    /\ probe \in FineCoords \X CoarseCoords

Spec == Init /\ [][Next]_vars

\* other instances the solver adapter may be handed (section 8 scenarios)
Contradiction ==
    [sense |-> "min", lowBound |-> 0, obj |-> <<1, 1>>,
     cons |-> << Con(1, 0, ">=", 2), Con(0, 1, ">=", 2),
                 Con(1, 1, ">=", 10), Con(1, 0, "<=", 1) >>]
Afternoon10 ==
    [sense |-> "min", lowBound |-> 0, obj |-> <<1, 1>>,
     cons |-> << Con(1, 0, ">=", 2), Con(1, 1, ">=", 10), Con(0, 1, ">=", 2) >>]
CafeMaximize ==
    [sense |-> "max", lowBound |-> 0, obj |-> <<1, 1>>,
     cons |-> << Con(1, 0, ">=", 2), Con(1, 1, ">=", 3), Con(0, 1, ">=", 2) >>]
CafeCapped ==
    [sense |-> "max", lowBound |-> 0, obj |-> <<1, 1>>,
     cons |-> << Con(1, 0, ">=", 2), Con(1, 1, ">=", 3), Con(0, 1, ">=", 2),
                 Con(1, 0, "<=", 4), Con(0, 1, "<=", 5) >>]
Scenarios == {Cafe_Staffing, Contradiction, Afternoon10, CafeMaximize, CafeCapped}

\* any instance, and a solver that may also give up
InitSolver ==
    /\ Start
    /\ given \in Scenarios
    /\ solver \in {"exact", "gaveup"}
    /\ view = Viewport
    /\ probe \in CoarseCoords \X CoarseCoords

SpecSolver == InitSolver /\ [][Next]_vars

\* other values of x_min, x_max, y_min, y_max (section 8 clipping scenario)
UnitSquare == [x_min |-> 0, x_max |-> 1, y_min |-> 0, y_max |-> 1]
UpperRight == [x_min |-> 3, x_max |-> 6, y_min |-> 3, y_max |-> 6]
Viewports == {Viewport, UnitSquare, UpperRight}

InitView ==
    /\ Start
    /\ given = Cafe_Staffing
    /\ solver = "exact"
    /\ view \in Viewports
    /\ probe \in FineCoords \X CoarseCoords

SpecView == InitView /\ [][Next]_vars

----------------------------------------------------------------------------
(* Vocabulary of the properties *)

Solved == pc \notin {"build", "solve"}
Reported == pc \notin {"build", "solve", "report"}
AllShaded == pc \in {"overlay", "handoff", "done"}

\* the inspected point lies in the region filled under the given label
ShadedAt(name) ==
    \E k \in DOMAIN shaded :
        shaded[k].name = name /\ InFill(shaded[k], probe[1], probe[2])

\* the inspected point lies inside the axes limits
InView ==
    /\ view.x_min * Unit <= probe[1] /\ probe[1] <= view.x_max * Unit
    /\ view.y_min * Unit <= probe[2] /\ probe[2] <= view.y_max * Unit

IsPrefix(s, t) == Len(s) <= Len(t) /\ \A k \in 1 .. Len(s) : s[k] = t[k]

RunOrder ==
    <<"build", "solve", "report", "shadeC1", "shadeC2", "shadeC3",
      "overlay", "handoff">>

----------------------------------------------------------------------------
(* Properties *)

\* C1: for the cafe instance the solver returns Optimal with x1 = 2, x2 = 2
\* and objective 4, and no feasible integer point has a smaller objective.
C1_CafeOptimum ==
    /\ Solved =>
          /\ result = [status |-> "Optimal", x1 |-> 2 * Unit, x2 |-> 2 * Unit]
          /\ \A pt \in Feasible(prob) : ObjAt(prob, pt) >= 4
    /\ Reported =>
          /\ optimal_x1 = 2 * Unit
          /\ optimal_x2 = 2 * Unit
          /\ optimal_obj_val = 4 * Unit
          /\ notice = "success"

C1_Witness == pc = "done" /\ result.status = "Optimal" /\ optimal_obj_val = 4 * Unit

\* C2: every Optimal result has integer values, not below the lower bound 0,
\* with x1 >= 2, x2 >= 2, x1 + x2 >= 3, and the objective value read back
\* equals x1 + x2 at those values.
C2_OptimalIsFeasible ==
    (Solved /\ result.status = "Optimal") =>
        /\ result.x1 % Unit = 0 /\ result.x2 % Unit = 0
        /\ result.x1 >= 0 /\ result.x2 >= 0
        /\ result.x1 >= 2 * Unit
        /\ result.x2 >= 2 * Unit
        /\ result.x1 + result.x2 >= 3 * Unit
        /\ Reported =>
              /\ optimal_x1 = result.x1
              /\ optimal_x2 = result.x2
              /\ optimal_obj_val = optimal_x1 + optimal_x2

C2_Witness ==
    /\ Reported
    /\ result.status = "Optimal"
    /\ given = Afternoon10
    /\ optimal_x1 = 3 * Unit

\* C3: a point of the viewport with x1 > 2, x2 > 2 and x1 + x2 > 3 lies in
\* none of the three shaded regions.
C3_RoundTrip ==
    (/\ InView
     /\ probe[1] > 2 * Unit
     /\ probe[2] > 2 * Unit
     /\ probe[1] + probe[2] > 3 * Unit)
        => \A name \in {"C1", "C2", "C3"} : ~ ShadedAt(name)

C3_Witness ==
    /\ AllShaded
    /\ Len(shaded) = 3
    /\ probe = <<2 * Unit + 1, 2 * Unit + 1>>

\* C4: when the status is not Optimal a warning is shown, neither marker nor
\* iso-line is produced, and the three shaded regions are the same as in the
\* Optimal case.
ShadingOfThePage ==
    << [name |-> "C1", segs |-> 0 .. 498],
       [name |-> "C2", segs |-> 0 .. 48],
       [name |-> "C3", segs |-> 0 .. 498] >>

C4_NotOptimal ==
    /\ (Reported /\ result.status # "Optimal") =>
          /\ notice = "warning"
          /\ marker = <<>>
          /\ isoLine = <<>>
    /\ AllShaded => shaded = ShadingOfThePage

C4_Witness ==
    /\ pc = "done"
    /\ result.status = "Unbounded"
    /\ notice = "warning"
    /\ shaded = ShadingOfThePage

C6_IsoLineClipped ==
    \A k \in DOMAIN isoLine :
        /\ view.x_min * Unit * (NFill - 1) <= isoLine[k].x
        /\ isoLine[k].x <= view.x_max * Unit * (NFill - 1)
        /\ view.y_min * Unit * (NFill - 1) <= isoLine[k].y
        /\ isoLine[k].y <= view.y_max * Unit * (NFill - 1)

\* C7: for x1 >= 2, x2 >= 2, x1 + x2 >= 10, x1 <= 1 the solver returns
\* Infeasible and neither marker nor iso-line is produced.
C7_Infeasible ==
    (given = Contradiction /\ solver = "exact") =>
        /\ Solved => result.status = "Infeasible"
        /\ marker = <<>>
        /\ isoLine = <<>>

C7_Witness ==
    /\ given = Contradiction
    /\ solver = "exact"
    /\ result.status = "Infeasible"
    /\ pc = "done"

\* C8: the steps run once each and in order; the solver is invoked once, the
\* overlay comes after the solve result, the hand-off after all shading and
\* the overlay.
C8_RunOnceInOrder ==
    /\ IsPrefix(trace, RunOrder)
    /\ Cardinality({k \in DOMAIN trace : trace[k] = "solve"}) <= 1
    /\ (marker # <<>> \/ isoLine # <<>>) =>
          \E k \in DOMAIN trace : trace[k] = "solve"
    /\ handed =>
          /\ Len(shaded) = 3
          /\ \E k \in DOMAIN trace : trace[k] = "overlay"
    /\ pc = "done" => (trace = RunOrder /\ handed)

C8_Witness ==
    /\ pc = "done"
    /\ trace = RunOrder
    /\ result.status = "Not Solved"

\* C9 (as stated): for x1 + x2 >= 3 and x2 >= 2 the shaded region stays
\* within y_min and y_max, every shaded point has a*x1 + b*x2 <= c, and every
\* viewport point with a*x1 + b*x2 < c is shaded.
C9_HalfPlaneShaded ==
    AllShaded =>
        /\ ShadedAt("C2") =>
              /\ view.y_min * Unit <= probe[2] /\ probe[2] <= view.y_max * Unit
              /\ probe[1] + probe[2] <= 3 * Unit
        /\ (InView /\ probe[1] + probe[2] < 3 * Unit) => ShadedAt("C2")
        /\ ShadedAt("C3") =>
              /\ view.y_min * Unit <= probe[2] /\ probe[2] <= view.y_max * Unit
              /\ probe[2] <= 2 * Unit
        /\ (InView /\ probe[2] < 2 * Unit) => ShadedAt("C3")

\* C10: optimal_x1, optimal_x2 and optimal_obj_val are all unset or all set,
\* the iso-line is never computed from an unset objective value, and marker
\* and iso-line are produced together or not at all.
C10_AllOrNothing ==
    /\ \/ optimal_x1 = None /\ optimal_x2 = None /\ optimal_obj_val = None
       \/ optimal_x1 # None /\ optimal_x2 # None /\ optimal_obj_val # None
    /\ pc # "crashed"
    /\ (marker = <<>>) <=> (isoLine = <<>>)

C10_Witness ==
    /\ pc = "handoff"
    /\ marker # <<>>
    /\ isoLine # <<>>
    /\ optimal_obj_val # None

====
